---------------------------- MODULE Spec2Model ----------------------------
(***************************************************************************)
(* A model of the block-stream reconciliation state machine of graph-node  *)
(* (graph/src/blockchain/block_stream_v2.rs, BlockStream::poll_next).      *)
(*                                                                         *)
(* One action, PollNext, is one call of BlockStream::poll_next: it runs    *)
(* the `loop { match &mut self.state { ... } }` of the source arm by arm   *)
(* until an arm breaks out of the loop, or until an iteration leaves the   *)
(* whole state unchanged, in which case the loop of the source iterates    *)
(* forever and the call never returns (ret = "Spin").                      *)
(*                                                                         *)
(* ctx.next_blocks() and the constructor of BlockStream are not part of    *)
(* the modelled sources; the result of the reconciliation future is an     *)
(* input of PollNext, drawn from NextBlocksResults.                        *)
(*                                                                         *)
(* BufferedBlockStream (graph/src/blockchain/buffered_block_stream.rs)     *)
(* puts a spawned task and a 4-slot channel between the BlockStream and    *)
(* its consumer; Spec, SpecAny and FairSpec poll the BlockStream directly, *)
(* BufSpec polls it through the task.                                      *)
(*                                                                         *)
(* FirehoseBlockIngestor::run (graph/src/blockchain/                       *)
(* firehose_block_ingestor.rs) is the live-tail loop: one action per       *)
(* stretch of code between two awaits.  The feed is a fixed sequence of    *)
(* envelopes and the cursor of an envelope is its index in the feed, 0     *)
(* standing for "no cursor".  IngestSpec and IngestFairSpec run the loop.  *)
(***************************************************************************)
EXTENDS Integers, Naturals, Sequences, FiniteSets, TLC

\* ------------------------------------------------------------------ bounds

\* Block numbers are 1..MaxBlock.
MaxBlock == 2
\* A Blocks result carries 1..MaxBatchLen blocks.
MaxBatchLen == 2
\* The reconciliation source completes with Revert or Err at most MaxEmitted
\* times in one run (each such completion hands one item to the consumer).
MaxEmitted == 2
\* At most MaxNotifications chain head updates are queued and unread.
MaxNotifications == 1
\* consecutive_err_count of a BlockStream value at its first poll, under
\* SpecAny, is in 0..MaxInitErr.
MaxInitErr == 2

\* The source hands at most MaxSourceItems items to the buffering task.
MaxSourceItems == 5
\* Polls of the source after the consumer dropped the stream are counted up to
\* MaxPollsAfterDrop.
MaxPollsAfterDrop == 2

\* The feed carries MaxFeedLen envelopes.
MaxFeedLen == 3
\* At most MaxFailures reads, writes, connects, decodes or streams fail, and the
\* ingestor process crashes and restarts at most MaxCrashes times.
MaxFailures == 2
MaxCrashes == 1

\* The backfill target found in the store is at most MaxTarget.
MaxTarget == 2
\* When run() and run_backfill() run side by side they meet at most
\* MaxBothFailures failures between them.
MaxBothFailures == 1

\* triggers_in_block: transactions per block and instructions per transaction.
MaxTx == 3

MaxInstr == 3

\* Envelopes handed to the firehose mapper.
MaxMapped == 3

\* Characters in the column list of a create-index definition.
MaxDefnLen == 5

\* ------------------------------------------------------- program constants

\* `mpsc::channel(4)`
ChannelCapacity == 4

\* `.max(10)`: the floor of max_block_range_size.
RangeFloor == 10

\* ------------------------------------------------------------ input domains

\* Values of ctx.max_block_range_size a stream is constructed with.
InitRanges == {10, 11, 20}

\* trigger_count() of a block.
TriggerCounts == {0, 2}

BlockPtrs == 1..MaxBlock

\* BlockWithTriggers, reduced to the block's number and its trigger_count().
BlockWithTriggers == [number : BlockPtrs, trigger_count : TriggerCounts]

\* The lists a Blocks result can carry: non-empty, ascending block numbers.
Batches ==
    { b \in UNION { [1..n -> BlockWithTriggers] : n \in 1..MaxBatchLen } :
        \A i \in 1..(Len(b) - 1) : b[i].number < b[i + 1].number }

\* What polling the reconciliation future can return
\* (Poll<Result<NextBlocks<C>, Error>>), for a context whose
\* max_block_range_size is maxRange.
NextBlocksResults(maxRange) ==
         UNION { { [kind |-> "Blocks", blocks |-> b, range |-> r, ptr |-> 0] :
                       r \in {Len(b), maxRange} } : b \in Batches }
    \cup { [kind |-> "Revert", blocks |-> <<>>, range |-> 0, ptr |-> p] :
               p \in BlockPtrs }
    \cup { [kind |-> k, blocks |-> <<>>, range |-> 0, ptr |-> 0] :
               k \in {"Done", "Pending", "Err"} }

\* -------------------------------------------------------------------- state

VARIABLES
    state,                       \* BlockStream.state (the tag of BlockStreamState)
    fut,                         \* the future held by Reconciliation: "none", "pending", "completed"
    yielding,                    \* the VecDeque held by YieldingBlocks
    consecutive_err_count,       \* BlockStream.consecutive_err_count
    max_block_range_size,        \* ctx.max_block_range_size
    previous_triggers_per_block, \* ctx.previous_triggers_per_block, as <<numerator, denominator>>
    previous_block_range_size,   \* ctx.previous_block_range_size
    chain_head_update_stream,    \* unread notifications on chain_head_update_stream
    emitted,                     \* history: the items poll_next handed to its caller
    requests,                    \* history: the number of next_blocks() requests issued
    errs,                        \* history: failures of the source since its last success
    lastErr,                     \* history: the most recent failed request
    poll                         \* history: the most recent call of poll_next

\* BufferedBlockStream
VARIABLES
    started,                     \* BufferedBlockStream.started
    task,                        \* the spawned task: "none", "next", "send", "exited", "dead"
    inflight,                    \* the item the task is sending (at most one)
    channel,                     \* the messages buffered in the mpsc channel
    received,                    \* history: the items the consumer received
    dropped,                     \* the consumer dropped the stream (receiver closed)
    pollsAfterDrop               \* history: polls of the source since the drop

bsVars == << state, fut, yielding, consecutive_err_count, max_block_range_size,
             previous_triggers_per_block, previous_block_range_size,
             chain_head_update_stream, emitted, requests, errs, lastErr, poll >>

bufVars == << started, task, inflight, channel, received, dropped, pollsAfterDrop >>

\* FirehoseBlockIngestor, its chain store and the feed
VARIABLES
    feed,                        \* the envelopes the endpoint streams, in order
    chain_blocks,                \* store: the numbers of the blocks upserted
    chain_head,                  \* store: the chain head (0: none)
    head_cursor,                 \* store: the chain head cursor (0: none)
    backfill_target,             \* store: the backfill target block number
    chain_backfill_cursor,       \* store: the backfill cursor
    pc,                          \* where run() is: "fetch_cursor", "fetch_sleep", "connect",
                                 \*   "stream", "write", "sleep"
    latest_cursor,               \* run()'s latest_cursor
    pos,                         \* the index of the last envelope the open stream yielded
    w,                           \* process_block: the write it is about to make
    update_backfill_target_block, \* process_blocks' flag
    log,                         \* history: the writes made for the envelope at hand
    lastEnd,                     \* history: why the last stream ended
    slept,                       \* history: run() slept since its last stream_blocks call
    opened,                      \* history: this run() has called stream_blocks
    opens,                       \* history: the number of stream_blocks calls
    req,                         \* history: the last request run() sent
    attempts,                    \* history: deliveries since the cursor last advanced
    restarts,                    \* history: stream ends and crashes since then
    fails,                       \* history: failures so far
    crashes                      \* history: crashes so far

storeVars == << chain_blocks, chain_head, head_cursor, backfill_target,
               chain_backfill_cursor >>

\* run() and its history
liveVars == << feed, pc, latest_cursor, pos, w, update_backfill_target_block,
               log, lastEnd, slept, opened, opens, req, attempts, restarts,
               fails, crashes >>

ingVars == << feed, storeVars, pc, latest_cursor, pos, w,
              update_backfill_target_block, log, lastEnd, slept, opened, opens,
              req, attempts, restarts, fails, crashes >>

\* FirehoseBlockIngestor::run_backfill
VARIABLES
    bpc,                         \* where run_backfill() is: "fetch_cursor", "cursor_sleep",
                                 \*   "fetch_target", "target_sleep", "idle_sleep",
                                 \*   "connect", "stream", "write", "sleep"
    bf_cursor,                   \* run_backfill()'s backfill_cursor
    bf_target,                   \* run_backfill()'s backfill_target
    bpos,                        \* the index of the last envelope the backfill stream yielded
    bw,                          \* process_backfill_block: the write it is about to make
    breq,                        \* history: the last request run_backfill() sent
    bidled,                      \* history: run_backfill() slept for want of a target
    bfails                       \* history: failures met by run_backfill() so far

bfVars == << bpc, bf_cursor, bf_target, bpos, bw, breq, bidled, bfails >>

\* solana: TriggersAdapter::triggers_in_block and FirehoseMapper
VARIABLES
    tblock,                      \* the block handed to triggers_in_block
    ttriggers,                   \* the trigger_data it built
    tsorted,                     \* the triggers of the BlockWithTriggers it returned
    tstage,                      \* "block", "returned"
    mfeed,                       \* history: the envelopes handed to the mapper
    mevents,                     \* the events the mapper returned, in order
    mresult                      \* the outcome of the last call: "none", "Ok",
                                 \*   "Err", "panic"

solVars == << tblock, ttriggers, tsorted, tstage, mfeed, mevents, mresult >>

\* relational::index::CreateIndex::parse
VARIABLES
    defn,                        \* the definition handed to CreateIndex::parse
    index                        \* the CreateIndex it returned

idxVars == << defn, index >>

vars == << bsVars, bufVars, ingVars, bfVars, solVars, idxVars >>

States == { "BeginReconciliation", "Reconciliation", "YieldingBlocks",
            "RetryAfterDelay", "Idle", "Transition" }

\* ------------------------------------------------------------------ helpers

Max(a, b) == IF a >= b THEN a ELSE b


Last(seq) == seq[Len(seq)]

RECURSIVE SumTriggers(_)
\* next_blocks.iter().map(|b| b.trigger_count()).sum::<usize>()
SumTriggers(blocks) ==
    IF blocks = <<>> THEN 0
    ELSE Head(blocks).trigger_count + SumTriggers(Tail(blocks))

\* A plausible slip: the shrink also fires on sustained failure.
ShouldShrinkOnAnyError(count) == count >= 1

\* `if self.consecutive_err_count == 1`
ShouldShrink(count) == count = 1

\* A plausible slip: the `.max(10)` is forgotten.
ShrinkRangeNoFloor(size) == (size * 9) \div 10

\* `(self.ctx.max_block_range_size * 9 / 10).max(10)`
ShrinkRange(size) == Max((size * 9) \div 10, 10)

\* The BlockStream, with the bookkeeping of the running call, as one record.
Self ==
    [ state |-> state, fut |-> fut, yielding |-> yielding,
      consecutive_err_count |-> consecutive_err_count,
      max_block_range_size |-> max_block_range_size,
      previous_triggers_per_block |-> previous_triggers_per_block,
      previous_block_range_size |-> previous_block_range_size,
      emitted |-> emitted, requests |-> requests, errs |-> errs,
      lastErr |-> lastErr,
      outcome |-> "None", ret |-> "Continue" ]

\* ------------------------------------------------------- the arms of the loop

\* A plausible slip: the state is taken out, leaving the placeholder, and the
\* new state is never put in.
ArmBeginReconciliationTaken(s) ==
    [s EXCEPT !.state = "Transition", !.fut = "pending",
              !.requests = s.requests + 1]

\* BlockStreamState::BeginReconciliation => { ... }
ArmBeginReconciliation(s) ==
    [s EXCEPT !.state = "Reconciliation", !.fut = "pending",
              !.requests = s.requests + 1]

\* Poll::Ready(Ok(NextBlocks::Blocks(next_blocks, block_range_size))) => { ...; continue }
ArmBlocks(s, next_blocks, block_range_size) ==
    [s EXCEPT !.max_block_range_size =
                  IF ShouldShrink(s.consecutive_err_count)
                  THEN ShrinkRange(s.max_block_range_size)
                  ELSE s.max_block_range_size,
              !.consecutive_err_count = 0,
              !.previous_triggers_per_block =
                  << SumTriggers(next_blocks), block_range_size >>,
              !.previous_block_range_size = block_range_size,
              !.state = "YieldingBlocks",
              !.yielding = next_blocks,
              !.fut = "none",
              !.errs = 0,
              !.outcome = "Blocks"]

\* A plausible slip: the error count is not reset when caught up.
ArmDoneNoReset(s) ==
    [s EXCEPT !.state = "Idle", !.fut = "none", !.errs = 0, !.outcome = "Done"]

\* Poll::Ready(Ok(NextBlocks::Done)) => { ...; continue }
ArmDone(s) ==
    [s EXCEPT !.consecutive_err_count = 0,
              !.state = "Idle", !.fut = "none", !.errs = 0, !.outcome = "Done"]

\* A plausible slip: a revert resets the error count, as Blocks and Done do.
ArmRevertResetsCount(s, block) ==
    [s EXCEPT !.consecutive_err_count = 0,
              !.state = "BeginReconciliation", !.fut = "none",
              !.emitted = Append(s.emitted, [kind |-> "Revert", ptr |-> block]),
              !.errs = 0,
              !.outcome = "Revert", !.ret = "Revert"]

\* A plausible slip: a revert parks the stream in Idle, as Done does.
ArmRevertToIdle(s, block) ==
    [s EXCEPT !.state = "Idle", !.fut = "none",
              !.emitted = Append(s.emitted, [kind |-> "Revert", ptr |-> block]),
              !.errs = 0,
              !.outcome = "Revert", !.ret = "Revert"]

\* Poll::Ready(Ok(NextBlocks::Revert(block))) => { ...; break Ok(Poll::Ready(Some(Revert(block)))) }
ArmRevert(s, block) ==
    [s EXCEPT !.state = "BeginReconciliation", !.fut = "none",
              !.emitted = Append(s.emitted, [kind |-> "Revert", ptr |-> block]),
              !.errs = 0,
              !.outcome = "Revert", !.ret = "Revert"]

\* A plausible slip: a pending request is abandoned and the stream restarts.
ArmPendingRestart(s) ==
    [s EXCEPT !.state = "BeginReconciliation", !.fut = "none",
              !.outcome = "Pending", !.ret = "Pending"]

\* Poll::Pending => { self.state = Reconciliation(..same future..); break Ok(Poll::Pending) }
ArmPending(s) ==
    [s EXCEPT !.state = "Reconciliation", !.fut = "pending",
              !.outcome = "Pending", !.ret = "Pending"]

\* A plausible slip: the error is swallowed and the poll reports Pending.
ArmErrSwallowed(s) ==
    [s EXCEPT !.fut = "completed", !.errs = s.errs + 1,
              !.lastErr = [requests |-> s.requests,
                           maxBefore |-> s.max_block_range_size],
              !.outcome = "Err", !.ret = "Pending"]

\* Poll::Ready(Err(e)) => { break Err(e) }: the error leaves the loop as the
\* call's result; the state keeps the future, which has completed.
ArmErr(s) ==
    [s EXCEPT !.fut = "completed", !.errs = s.errs + 1,
              !.lastErr = [requests |-> s.requests,
                           maxBefore |-> s.max_block_range_size],
              !.emitted = Append(s.emitted, [kind |-> "Err", ptr |-> 0]),
              !.outcome = "Err", !.ret = "Err"]

\* Polling the boxed `async move` future again after it has completed panics.
ArmPolledAfterCompletion(s) == [s EXCEPT !.ret = "Panic"]

\* BlockStreamState::Reconciliation(next_blocks_future) => match next_blocks_future.poll_unpin(cx)
ArmReconciliation(s, o) ==
    IF s.fut = "completed" THEN ArmPolledAfterCompletion(s)
    ELSE CASE o.kind = "Blocks"  -> ArmBlocks(s, o.blocks, o.range)
           [] o.kind = "Done"    -> ArmDone(s)
           [] o.kind = "Revert"  -> ArmRevert(s, o.ptr)
           [] o.kind = "Pending" -> ArmPending(s)
           [] o.kind = "Err"     -> ArmErr(s)

\* BlockStreamState::Idle => {}
ArmIdle(s) == s

\* BlockStreamState::RetryAfterDelay(_) => {}
ArmRetryAfterDelay(s) == s

\* BlockStreamState::Transition => unreachable!()
ArmTransition(s) == [s EXCEPT !.ret = "Panic"]

\* _ => {}   (the arm YieldingBlocks falls into)
ArmOther(s) == s

\* match &mut self.state { ... }: one iteration of the loop.
MatchState(s, o) ==
    CASE s.state = "BeginReconciliation" -> ArmBeginReconciliation(s)
      [] s.state = "Reconciliation"      -> ArmReconciliation(s, o)
      [] s.state = "Idle"                -> ArmIdle(s)
      [] s.state = "RetryAfterDelay"     -> ArmRetryAfterDelay(s)
      [] s.state = "Transition"          -> ArmTransition(s)
      [] OTHER                           -> ArmOther(s)

RECURSIVE PollLoop(_, _)
\* let result = loop { ... }: iterate until an arm breaks.  An iteration that
\* neither breaks nor changes anything is repeated forever: the call spins.
PollLoop(s, o) ==
    LET r == MatchState(s, o) IN
    IF r.ret # "Continue" THEN r
    ELSE IF r = s THEN [r EXCEPT !.ret = "Spin"]
    ELSE PollLoop(r, o)

\* ------------------------------------------------------------------- actions

\* The caller is inside a call that never returns, or the call panicked.
Dead == poll.ret \in {"Spin", "Panic"}

\* One call of BlockStream::poll_next; o is what the reconciliation future
\* returns if this call polls it.
PollNext(o) ==
    /\ ~Dead
    /\ LET r == PollLoop(Self, o) IN
       /\ state' = r.state
       /\ fut' = r.fut
       /\ yielding' = r.yielding
       /\ consecutive_err_count' = r.consecutive_err_count
       /\ max_block_range_size' = r.max_block_range_size
       /\ previous_triggers_per_block' = r.previous_triggers_per_block
       /\ previous_block_range_size' = r.previous_block_range_size
       /\ emitted' = r.emitted
       /\ requests' = r.requests
       /\ errs' = r.errs
       /\ lastErr' = r.lastErr
       /\ poll' = [ ret |-> r.ret, outcome |-> r.outcome,
                    stateBefore |-> state,
                    errBefore |-> consecutive_err_count,
                    maxBefore |-> max_block_range_size,
                    emittedBefore |-> emitted,
                    blocks |-> IF r.outcome = "Blocks" THEN o.blocks ELSE <<>>,
                    ptr |-> IF r.outcome = "Revert" THEN o.ptr ELSE 0 ]
    /\ UNCHANGED chain_head_update_stream

\* The chain head listener puts a notification on chain_head_update_stream.
ChainHeadUpdate ==
    /\ chain_head_update_stream < MaxNotifications
    /\ chain_head_update_stream' = chain_head_update_stream + 1
    /\ UNCHANGED << state, fut, yielding, consecutive_err_count,
                    max_block_range_size, previous_triggers_per_block,
                    previous_block_range_size, emitted, requests, errs, lastErr,
                    poll >>
    /\ UNCHANGED << bufVars, ingVars, bfVars, solVars, idxVars >>

\* poll_next called by a consumer that holds the BlockStream itself.
Poll ==
    /\ \E o \in NextBlocksResults(max_block_range_size) :
          /\ o.kind \in {"Revert", "Err"} => Len(emitted) < MaxEmitted
          /\ PollNext(o)
    /\ UNCHANGED << bufVars, ingVars, bfVars, solVars, idxVars >>

\* ------------------------------------------------------ BufferedBlockStream

\* A plausible slip: an unbounded channel, a send never waits.
HasCapacityUnbounded(ch) == TRUE

\* tx.send(block).await completes once the channel holds fewer than 4 messages.
HasCapacity(ch) == Len(ch) < ChannelCapacity

\* A plausible slip: the newest message is put in front of the queue.
EnqueueInFront(ch, item) == << item >> \o ch

\* The channel is a FIFO queue: a sent message goes to its end.
Enqueue(ch, item) == Append(ch, item)

\* BufferedBlockStream::new: the channel is created, nothing is spawned.
BufNew ==
    /\ started = FALSE
    /\ task = "none"
    /\ inflight = << >>
    /\ channel = << >>
    /\ received = << >>
    /\ dropped = FALSE
    /\ pollsAfterDrop = 0

\* A plausible slip: only the task holds a Sender.
SendersAliveTaskOnly(t) == IF t \in { "next", "send" } THEN 1 ELSE 0

\* The Senders of the channel that are alive: BufferedBlockStream.sender, and
\* the clone the task holds while it runs.
SendersAlive(t) == 1 + (IF t \in { "next", "send" } THEN 1 ELSE 0)

\* receiver.poll_recv(cx): a queued message, end-of-stream once the channel
\* is empty and every Sender is gone, Pending otherwise.
PollRecv(ch, senders) ==
    IF ch # << >> THEN "Item"
    ELSE IF senders = 0 THEN "None"
    ELSE "Pending"

\* What the consumer is handed when the stream ends.
EndOfStream == [kind |-> "None", ptr |-> 0]

\* BufferedBlockStream::poll_next: start() on the first call (the task is
\* spawned), then receiver.poll_recv(cx).
ConsumerPoll ==
    /\ ~dropped
    /\ started' = TRUE
    /\ task' = IF started THEN task ELSE "next"
    /\ LET ret == PollRecv(channel, SendersAlive(task'))
       IN  /\ CASE ret = "Item" ->
                    /\ received' = Append(received, Head(channel))
                    /\ channel' = Tail(channel)
                [] ret = "None" ->
                    /\ received' = Append(received, EndOfStream)
                    /\ UNCHANGED channel
                [] OTHER -> UNCHANGED << received, channel >>
           /\ \/ ~started
              \/ ret # "Pending"
    /\ UNCHANGED << inflight, dropped, pollsAfterDrop >>
    /\ UNCHANGED << bsVars, ingVars, bfVars, solVars, idxVars >>

\* What the source can return when the buffering task polls it.  The task
\* never sees the blocks of a batch (the batch is stored, not yielded), so one
\* batch stands for all of them; two distinct pointers tell the items apart.
BufResults(maxRange) ==
    { o \in NextBlocksResults(maxRange) :
        /\ o.kind = "Blocks" =>
              /\ o.blocks = << [number |-> 1, trigger_count |-> 0] >>
              /\ o.range = maxRange
        /\ o.kind = "Revert" => o.ptr \in {1, MaxBlock} }

\* `s.next().await` in the task: one poll of the source.  An item is kept for
\* the send; Pending leaves the task waiting; a call that spins or panics
\* takes the task with it.  The cancelable wrapper is transparent: its guard
\* is a local of start() and nothing signals it when the consumer goes away.
TaskPoll ==
    /\ task = "next"
    /\ \E o \in BufResults(max_block_range_size) :
          /\ o.kind \in {"Revert", "Err"} => Len(emitted) < MaxSourceItems
          /\ PollNext(o)
    /\ task' = CASE poll'.ret \in {"Revert", "Err"} -> "send"
                 [] poll'.ret = "Pending"          -> "next"
                 [] OTHER                          -> "dead"
    /\ inflight' = IF poll'.ret \in {"Revert", "Err"}
                   THEN << Last(emitted') >> ELSE << >>
    /\ pollsAfterDrop' = IF dropped /\ pollsAfterDrop < MaxPollsAfterDrop
                         THEN pollsAfterDrop + 1 ELSE pollsAfterDrop
    /\ UNCHANGED << started, channel, received, dropped >>
    /\ UNCHANGED << ingVars, bfVars, solVars, idxVars >>

\* `tx.send(block).await` in the task: the message is queued once there is
\* room; if the receiver is gone the send fails and the task returns.
TaskSend ==
    /\ task = "send"
    /\ IF dropped
       THEN /\ task' = "exited"
            /\ UNCHANGED channel
       ELSE /\ HasCapacity(channel)
            /\ channel' = Enqueue(channel, inflight[1])
            /\ task' = "next"
    /\ inflight' = << >>
    /\ UNCHANGED << started, received, dropped, pollsAfterDrop >>
    /\ UNCHANGED << bsVars, ingVars, bfVars, solVars, idxVars >>

\* The consumer drops the BufferedBlockStream: the receiver is closed and the
\* messages still queued are discarded.
ConsumerDrop ==
    /\ started
    /\ ~dropped
    /\ dropped' = TRUE
    /\ channel' = << >>
    /\ UNCHANGED << started, task, inflight, received, pollsAfterDrop >>
    /\ UNCHANGED << bsVars, ingVars, bfVars, solVars, idxVars >>

\* ---------------------------------------------------- FirehoseBlockIngestor

\* An Option that is None: the store holds no cursor, or no backfill target.
None == -1

\* No request has been sent.
NoRequest ==
    [ start_block_num |-> None, stop_block_num |-> None, start_cursor |-> None,
      fork_steps |-> {} ]

ForkSteps == {"New", "Undo"}

\* The height of the chain after the first k envelopes of the step sequence s.
Tip(s, k) ==
    Cardinality({ i \in 1..k : s[i] = "New" })
        - Cardinality({ i \in 1..k : s[i] = "Undo" })

\* The feeds of MaxFeedLen envelopes: a New envelope carries the next block, an
\* Undo envelope the block it undoes (there must be one).
Feeds ==
    { [ i \in 1..MaxFeedLen |->
          [ step |-> s[i],
            number |-> IF s[i] = "New" THEN Tip(s, i) ELSE Tip(s, i - 1) ] ] :
        s \in { x \in [1..MaxFeedLen -> ForkSteps] :
                   \A k \in 1..MaxFeedLen : x[k] = "Undo" => Tip(x, k - 1) >= 1 } }

\* stream_blocks with start_cursor c: the stream resumes after the envelope
\* whose cursor is c, and at the first envelope when c is "".
StreamStart(c) == c

\* A plausible slip: the comparison is turned round and the lowest block wins.
ChainHeadOfLowest(stored, head) ==
    IF stored = {} THEN head
    ELSE CHOOSE b \in stored : \A c \in stored : c >= b

\* attempt_chain_head_update: the head becomes the highest block stored.
ChainHeadOf(stored, head) ==
    IF stored = {} THEN head
    ELSE CHOOSE b \in stored : \A c \in stored : c <= b

\* A plausible slip: an Undo envelope takes its block out of the store.
UpsertedOrReverted(stored, envelope) ==
    IF envelope.step = "Undo" THEN stored \ { envelope.number }
    ELSE stored \cup { envelope.number }

\* upsert_block(block) for the block of an envelope, whatever its step.
Upserted(stored, envelope) == stored \cup { envelope.number }

\* A plausible slip: the cursor is written before the block and the head.
WriteOrderCursorFirst == << "cursor", "upsert", "head" >>

\* process_block: upsert_block, attempt_chain_head_update, set_chain_head_cursor.
WriteOrder == << "upsert", "head", "cursor" >>

\* A plausible slip: the result of a write is dropped instead of propagated.
ReturnsEarlyNever(ok) == FALSE

\* `.await.context(..)?`: process_block returns at the first write that fails.
ReturnsEarly(ok) == ~ok

\* A plausible slip: the persisted cursor is ignored on start.
ReadCursorEmpty(c) == 0

\* `cursor.unwrap_or_else(|| "".to_string())`
ReadCursor(c) == IF c = None THEN 0 ELSE c

\* A plausible slip: a failed connection ends run().
AfterConnectErrorExit == "exited"

\* A plausible slip: a failed connection is retried at once.
AfterConnectErrorRetry == "connect"

\* run(): `Err(e) => { error!(..) }`, then the sleep of line 81.
AfterConnectError == "sleep"

\* A plausible slip: a block that fails is skipped and the stream read on.
AfterProcessBlockErrorContinue == "stream"

\* process_blocks: `Err(e) => { error!(..); break; }`, run() then sleeps.
AfterProcessBlockError == "sleep"

\* A plausible slip: the flag is left raised after the first block.
FlagKept(flag) == flag

\* process_blocks: `update_backfill_target_block = false` after the first
\* block; a flag that is down stays down.
FlagAfterBlock(flag) == FALSE

\* The backfill targets a store can hold.
Targets == 1..MaxTarget

CanFail == fails < MaxFailures

\* FirehoseBlockIngestor::new for run_backfill().
BfNew ==
    /\ bpc = "fetch_cursor"
    /\ bf_cursor = 0
    /\ bf_target = 0
    /\ bpos = 0
    /\ bw = 1
    /\ breq = NoRequest
    /\ bidled = FALSE
    /\ bfails = 0

\* FirehoseBlockIngestor::new and a store that holds no block, no cursor and
\* the backfill target `target`; f is what the endpoint will stream.
IngNewWith(f, target) ==
    /\ feed = f
    /\ chain_blocks = {}
    /\ chain_head = 0
    /\ head_cursor = None
    /\ backfill_target = target
    /\ chain_backfill_cursor = None
    /\ pc = "fetch_cursor"
    /\ latest_cursor = 0
    /\ pos = 0
    /\ w = 1
    /\ update_backfill_target_block = FALSE
    /\ log = << >>
    /\ lastEnd = "none"
    /\ slept = FALSE
    /\ opened = FALSE
    /\ opens = 0
    /\ req = NoRequest
    /\ attempts = 0
    /\ restarts = 0
    /\ fails = 0
    /\ crashes = 0

\* FirehoseBlockIngestor::new and an empty store.
IngNew(f) == IngNewWith(f, None)

\* A plausible slip: a failed read of the cursor ends the ingestor.
AfterReadErrorExit == "done"

\* fetch_head_cursor, `Err(e) => { error!(..); backoff.sleep_async().await; }`
AfterReadError == "fetch_sleep"

\* fetch_head_cursor: one read of the store's cursor.
FetchHeadCursor ==
    /\ pc = "fetch_cursor"
    /\ \E ok \in BOOLEAN :
          /\ ~ok => CanFail
          /\ fails' = IF ok THEN fails ELSE fails + 1
          /\ IF ok
             THEN /\ latest_cursor' = ReadCursor(head_cursor)
                  /\ pc' = "connect"
             ELSE /\ pc' = AfterReadError
                  /\ UNCHANGED latest_cursor
    /\ UNCHANGED << feed, storeVars, pos, w, update_backfill_target_block, log,
                    lastEnd, slept, opened, opens, req, attempts, restarts, crashes >>

\* fetch_head_cursor: the backoff after a failed read.
FetchSleep ==
    /\ pc = "fetch_sleep"
    /\ pc' = "fetch_cursor"
    /\ UNCHANGED << feed, storeVars, latest_cursor, pos, w,
                    update_backfill_target_block, log, lastEnd, slept, opened,
                    opens, req, attempts, restarts, fails, crashes >>

\* A plausible slip: every feed is opened without a cursor.
LiveTailRequestNoCursor(cursor) ==
    [ start_block_num |-> -1, stop_block_num |-> 0, start_cursor |-> 0,
      fork_steps |-> {"New", "Undo"} ]

\* run(): the BlocksRequestV2 it sends; stop_block_num is left at its default.
LiveTailRequest(cursor) ==
    [ start_block_num |-> -1, stop_block_num |-> 0, start_cursor |-> cursor,
      fork_steps |-> {"New", "Undo"} ]

\* run(): stream_blocks from latest_cursor; on Ok process_blocks starts and
\* reads the backfill target, on Err the error is logged.
Connect ==
    /\ pc = "connect"
    /\ opens' = opens + 1
    /\ req' = LiveTailRequest(latest_cursor)
    /\ opened' = TRUE
    /\ slept' = FALSE
    /\ \E ok \in BOOLEAN :
          /\ ~ok => CanFail
          /\ fails' = IF ok THEN fails ELSE fails + 1
          /\ IF ok
             THEN /\ pc' = "stream"
                  /\ pos' = StreamStart(req'.start_cursor)
                  /\ \E readOk \in BOOLEAN :
                        update_backfill_target_block' =
                            (readOk /\ backfill_target = None)
                  /\ UNCHANGED << lastEnd, restarts >>
             ELSE /\ pc' = AfterConnectError
                  /\ lastEnd' = "connect"
                  /\ restarts' = restarts + 1
                  /\ UNCHANGED << pos, update_backfill_target_block >>
    /\ UNCHANGED << feed, storeVars, latest_cursor, w, log, attempts, crashes >>

\* process_blocks: stream.next() yields an envelope, which process_block
\* decodes, or an error, or the end of the stream.
StreamNext ==
    /\ pc = "stream"
    /\ \/ /\ pos < Len(feed)
          /\ pos' = pos + 1
          /\ log' = << >>
          /\ attempts' = attempts + 1
          /\ \E ok \in BOOLEAN :
                /\ ~ok => CanFail
                /\ fails' = IF ok THEN fails ELSE fails + 1
                /\ IF ok
                   THEN /\ pc' = "write"
                        /\ w' = 1
                        /\ UNCHANGED << lastEnd, restarts >>
                   ELSE /\ pc' = AfterProcessBlockError
                        /\ lastEnd' = "decode"
                        /\ restarts' = restarts + 1
                        /\ UNCHANGED w
       \/ /\ CanFail
          /\ fails' = fails + 1
          /\ \E why \in {"stream", "close"} : lastEnd' = why
          /\ pc' = "sleep"
          /\ restarts' = restarts + 1
          /\ UNCHANGED << pos, log, attempts, w >>
    /\ UNCHANGED << feed, storeVars, latest_cursor, update_backfill_target_block,
                    slept, opened, opens, req, crashes >>

\* process_block: one write to the store, then either the next write, the
\* early return, or the return to process_blocks, which takes the cursor of
\* the envelope (the call that would seed the backfill target is not awaited).
Write ==
    /\ pc = "write"
    /\ \E ok \in BOOLEAN :
          /\ ~ok => CanFail
          /\ fails' = IF ok THEN fails ELSE fails + 1
          /\ LET op == WriteOrder[w] IN
             IF ok
             THEN /\ chain_blocks' = IF op = "upsert"
                                     THEN Upserted(chain_blocks, feed[pos])
                                     ELSE chain_blocks
                  /\ chain_head' = IF op = "head"
                                   THEN ChainHeadOf(chain_blocks, chain_head)
                                   ELSE chain_head
                  /\ head_cursor' = IF op = "cursor" THEN pos ELSE head_cursor
                  /\ log' = Append(log, op)
             ELSE UNCHANGED << chain_blocks, chain_head, head_cursor, log >>
          /\ IF ReturnsEarly(ok)
             THEN /\ pc' = AfterProcessBlockError
                  /\ lastEnd' = "write"
                  /\ restarts' = restarts + 1
                  /\ UNCHANGED << w, latest_cursor, update_backfill_target_block,
                                  attempts >>
             ELSE IF w < Len(WriteOrder)
             THEN /\ w' = w + 1
                  /\ UNCHANGED << pc, latest_cursor, update_backfill_target_block,
                                  lastEnd, restarts, attempts >>
             ELSE /\ pc' = "stream"
                  /\ w' = 1
                  /\ latest_cursor' = pos
                  /\ update_backfill_target_block' =
                         FlagAfterBlock(update_backfill_target_block)
                  /\ attempts' = 0
                  /\ restarts' = 0
                  /\ UNCHANGED lastEnd
    /\ UNCHANGED << feed, backfill_target, chain_backfill_cursor, pos, slept,
                    opened, opens, req, crashes >>

\* run(): `backoff.sleep_async().await`, then the next turn of the loop.
Sleep ==
    /\ pc = "sleep"
    /\ pc' = "connect"
    /\ slept' = TRUE
    /\ UNCHANGED << feed, storeVars, latest_cursor, pos, w,
                    update_backfill_target_block, log, lastEnd, opened, opens, req,
                    attempts, restarts, fails, crashes >>

\* The process dies and is started again: run() begins anew, the store is
\* what it was.
Crash ==
    /\ crashes < MaxCrashes
    /\ crashes' = crashes + 1
    /\ pc' = "fetch_cursor"
    /\ latest_cursor' = 0
    /\ pos' = 0
    /\ w' = 1
    /\ update_backfill_target_block' = FALSE
    /\ slept' = FALSE
    /\ opened' = FALSE
    /\ lastEnd' = "crash"
    /\ restarts' = restarts + 1
    /\ UNCHANGED << feed, storeVars, log, opens, req, attempts, fails >>

\* ------------------------------------- FirehoseBlockIngestor::run_backfill

\* fetch_backfill_target_block_num: `None => { return 0 }`,
\* `Some(block_num) => { return block_num }`.
ReadTarget(target) == IF target = None THEN 0 ELSE target

\* A plausible slip: a target of 0 is streamed like any other.
TargetUnsetNever(target) == FALSE

\* run_backfill(): `if backfill_target == 0`
TargetUnset(target) == target = 0

\* A plausible slip: the backfill sends the request of the live tail.
BackfillRequestOfLiveTail(target, cursor) ==
    [ start_block_num |-> -1, stop_block_num |-> 0, start_cursor |-> cursor,
      fork_steps |-> {"New", "Undo"} ]

\* run_backfill(): the BlocksRequestV2 it sends.
BackfillRequest(target, cursor) ==
    [ start_block_num |-> 0, stop_block_num |-> target, start_cursor |-> cursor,
      fork_steps |-> {"Irreversible"} ]

\* The backfill feed: the i-th envelope carries block i - 1, so that a request
\* from block 0 to block T is answered by T + 1 envelopes.
BackfillBlock(i) == i - 1

\* A plausible slip: process_backfill_block is a copy of process_block that
\* kept the head update.
BackfillWriteOrderWithHead == << "upsert", "head", "backfill_cursor" >>

\* process_backfill_block: upsert_block, set_chain_backfill_cursor.
BackfillWriteOrder == << "upsert", "backfill_cursor" >>

BackfillCanFail == bfails < MaxFailures

\* fetch_backfill_cursor: one read of the store's backfill cursor.
BackfillFetchCursor ==
    /\ bpc = "fetch_cursor"
    /\ \E ok \in BOOLEAN :
          /\ ~ok => BackfillCanFail
          /\ bfails' = IF ok THEN bfails ELSE bfails + 1
          /\ IF ok
             THEN /\ bf_cursor' = ReadCursor(chain_backfill_cursor)
                  /\ bpc' = "fetch_target"
             ELSE /\ bpc' = "cursor_sleep"
                  /\ UNCHANGED bf_cursor
    /\ UNCHANGED << bf_target, bpos, bw, breq, bidled, storeVars >>

\* fetch_backfill_target_block_num: one read of the store's backfill target,
\* and run_backfill()'s test of what it returned.
BackfillFetchTarget ==
    /\ bpc = "fetch_target"
    /\ \E ok \in BOOLEAN :
          /\ ~ok => BackfillCanFail
          /\ bfails' = IF ok THEN bfails ELSE bfails + 1
          /\ IF ok
             THEN /\ bf_target' = ReadTarget(backfill_target)
                  /\ bpc' = IF TargetUnset(ReadTarget(backfill_target))
                            THEN "idle_sleep" ELSE "connect"
             ELSE /\ bpc' = "target_sleep"
                  /\ UNCHANGED bf_target
    /\ UNCHANGED << bf_cursor, bpos, bw, breq, bidled, storeVars >>

\* fetch_backfill_cursor, fetch_backfill_target_block_num: the backoff after
\* a failed read, then the read again.
BackfillFetchSleep ==
    /\ bpc \in {"cursor_sleep", "target_sleep"}
    /\ bpc' = IF bpc = "cursor_sleep" THEN "fetch_cursor" ELSE "fetch_target"
    /\ UNCHANGED << bf_cursor, bf_target, bpos, bw, breq, bidled, bfails,
                    storeVars >>

\* run_backfill(): `backoff.sleep_async().await; continue` when there is no
\* target.
BackfillIdleSleep ==
    /\ bpc = "idle_sleep"
    /\ bpc' = "fetch_cursor"
    /\ bidled' = TRUE
    /\ UNCHANGED << bf_cursor, bf_target, bpos, bw, breq, bfails, storeVars >>

\* run_backfill(): stream_blocks; on Ok process_backfill_blocks starts.
BackfillConnect ==
    /\ bpc = "connect"
    /\ breq' = BackfillRequest(bf_target, bf_cursor)
    /\ \E ok \in BOOLEAN :
          /\ ~ok => BackfillCanFail
          /\ bfails' = IF ok THEN bfails ELSE bfails + 1
          /\ IF ok
             THEN /\ bpc' = "stream"
                  /\ bpos' = StreamStart(bf_cursor)
             ELSE /\ bpc' = "sleep"
                  /\ UNCHANGED bpos
    /\ UNCHANGED << bf_cursor, bf_target, bw, bidled, storeVars >>

\* process_backfill_blocks: stream.next() yields an envelope, which
\* process_backfill_block decodes, or an error, or the end of the stream once
\* the stop block has been sent.
BackfillStreamNext ==
    /\ bpc = "stream"
    /\ \/ /\ BackfillBlock(bpos + 1) <= breq.stop_block_num
          /\ bpos' = bpos + 1
          /\ \E ok \in BOOLEAN :
                /\ ~ok => BackfillCanFail
                /\ bfails' = IF ok THEN bfails ELSE bfails + 1
                /\ IF ok
                   THEN /\ bpc' = "write"
                        /\ bw' = 1
                   ELSE /\ bpc' = "sleep"
                        /\ UNCHANGED bw
       \/ /\ BackfillCanFail
          /\ bfails' = bfails + 1
          /\ bpc' = "sleep"
          /\ UNCHANGED << bpos, bw >>
       \/ /\ BackfillBlock(bpos + 1) > breq.stop_block_num
          /\ bpc' = "sleep"
          /\ UNCHANGED << bpos, bw, bfails >>
    /\ UNCHANGED << bf_cursor, bf_target, breq, bidled, storeVars >>

\* process_backfill_block: one write to the store, then either the next
\* write, the early return, or the return to process_backfill_blocks, which
\* takes the cursor of the envelope.
BackfillWrite ==
    /\ bpc = "write"
    /\ \E ok \in BOOLEAN :
          /\ ~ok => BackfillCanFail
          /\ bfails' = IF ok THEN bfails ELSE bfails + 1
          /\ LET op == BackfillWriteOrder[bw] IN
             IF ok
             THEN /\ chain_blocks' = IF op = "upsert"
                                     THEN chain_blocks \cup {BackfillBlock(bpos)}
                                     ELSE chain_blocks
                  /\ chain_head' = IF op = "head"
                                   THEN ChainHeadOf(chain_blocks, chain_head)
                                   ELSE chain_head
                  /\ chain_backfill_cursor' = IF op = "backfill_cursor"
                                              THEN bpos
                                              ELSE chain_backfill_cursor
             ELSE UNCHANGED << chain_blocks, chain_head, chain_backfill_cursor >>
          /\ IF ReturnsEarly(ok)
             THEN /\ bpc' = "sleep"
                  /\ UNCHANGED << bw, bf_cursor >>
             ELSE IF bw < Len(BackfillWriteOrder)
             THEN /\ bw' = bw + 1
                  /\ UNCHANGED << bpc, bf_cursor >>
             ELSE /\ bpc' = "stream"
                  /\ bw' = 1
                  /\ bf_cursor' = bpos
    /\ UNCHANGED << bf_target, bpos, breq, bidled, head_cursor, backfill_target >>

\* run_backfill(): `backoff.sleep_async().await`, then the next turn of the
\* loop.
BackfillSleep ==
    /\ bpc = "sleep"
    /\ bpc' = "fetch_cursor"
    /\ UNCHANGED << bf_cursor, bf_target, bpos, bw, breq, bidled, bfails,
                    storeVars >>

\* ------------------------------------------------------------ specifications

InitWith(count, range) ==
    /\ state = "BeginReconciliation"
    /\ fut = "none"
    /\ yielding = <<>>
    /\ consecutive_err_count = count
    /\ max_block_range_size = range
    /\ previous_triggers_per_block = << 0, 1 >>
    /\ previous_block_range_size = 1
    /\ chain_head_update_stream = 0
    /\ emitted = <<>>
    /\ requests = 0
    /\ errs = 0
    /\ lastErr = [requests |-> 0, maxBefore |-> range]
    /\ poll = [ ret |-> "None", outcome |-> "None",
                stateBefore |-> "BeginReconciliation",
                errBefore |-> count, maxBefore |-> range,
                emittedBefore |-> <<>>, blocks |-> <<>>, ptr |-> 0 ]

\* codec::Block as the solana chain reads it: its number and its transactions,
\* each with its instructions; counts[i] is the number of instructions of the
\* i-th transaction.
BlockOf(number, counts) ==
    [ number |-> number,
      transactions |->
          [ i \in 1..Len(counts) |->
              [ id |-> i,
                instructions |-> [ j \in 1..counts[i] |-> [ ordinal |-> j ] ] ] ] ]

\* The blocks handed to triggers_in_block.
SolBlocks ==
    { BlockOf(n, c) : n \in 1..MaxBlock,
                      c \in UNION { [1..k -> 0..MaxInstr] : k \in 0..MaxTx } }

\* The blocks the envelopes of a firehose stream carry.
MapBlocks == { BlockOf(n, c) : n \in 1..MaxBlock, c \in { << >>, << 1 >> } }

NoBlock == BlockOf(0, << >>)

\* SolanaTrigger::Instruction(InstructionWithInfo { .. })
InstructionTrigger(block, transaction, instruction) ==
    [ kind |-> "Instruction", instruction |-> instruction.ordinal,
      block_num |-> block.number, transaction_id |-> transaction.id ]

\* SolanaTrigger::Block(block)
BlockTrigger(block) ==
    [ kind |-> "Block", instruction |-> 0,
      block_num |-> block.number, transaction_id |-> 0 ]

\* block.transactions.iter().flat_map(|transaction|
\*     transaction.instructions.iter().flat_map(..)), from transaction i on.
RECURSIVE InstructionsFrom(_, _)
InstructionsFrom(block, i) ==
    IF i > Len(block.transactions) THEN << >>
    ELSE LET transaction == block.transactions[i]
         IN  [ j \in 1..Len(transaction.instructions) |->
                   InstructionTrigger(block, transaction,
                                      transaction.instructions[j]) ]
             \o InstructionsFrom(block, i + 1)

\* TriggersAdapter::triggers_in_block: the trigger_data of the result.
TriggersInBlock(block) ==
    Append(InstructionsFrom(block, 1), BlockTrigger(block))

\* An order that puts the Block trigger in front of the instructions.
CmpBlockFirst(a, b) ==
    CASE a.kind = "Block" /\ b.kind = "Block" -> "Equal"
      [] a.kind = "Block" -> "Less"
      [] b.kind = "Block" -> "Greater"
      [] OTHER -> "Equal"

\* impl Ord for SolanaTrigger
Cmp(a, b) ==
    CASE a.kind = "Block" /\ b.kind = "Block" -> "Equal"
      [] a.kind = "Block" -> "Greater"
      [] b.kind = "Block" -> "Less"
      [] OTHER -> "Equal"

\* One step of a stable sort: x goes behind every element that is not greater.
RECURSIVE Insert(_, _)
Insert(sorted, x) ==
    IF sorted = << >> THEN << x >>
    ELSE LET n == Len(sorted)
         IN  IF Cmp(sorted[n], x) = "Greater"
             THEN Append(Insert(SubSeq(sorted, 1, n - 1), x), sorted[n])
             ELSE Append(sorted, x)

\* A stable sort by Cmp.
RECURSIVE StableSort(_)
StableSort(triggers) ==
    IF triggers = << >> THEN << >>
    ELSE LET n == Len(triggers)
         IN  Insert(StableSort(SubSeq(triggers, 1, n - 1)), triggers[n])

\* ForkStep::from_i32(response.step) is Some(..)
Recognised(step) == step \in { "Unknown", "New", "Undo", "Irreversible" }

\* The step values an envelope can carry; "Unrecognised" is an integer that
\* is no ForkStep.
MapSteps == { "Unknown", "New", "Undo", "Irreversible", "Unrecognised" }

\* The payload of an envelope: a block, no block, or bytes that do not decode.
Payloads ==
    { [ kind |-> "block", block |-> b ] : b \in MapBlocks }
        \cup { [ kind |-> "absent", block |-> NoBlock ],
               [ kind |-> "garbage", block |-> NoBlock ] }

\* The envelopes the endpoint can send with the cursor `cursor`.
Responses(cursor) ==
    { [ step |-> s, payload |-> p, cursor |-> cursor ] :
          s \in MapSteps, p \in Payloads }

\* BlockStreamEvent::ProcessBlock(block_with_triggers, Some(cursor))
ProcessBlockEvent(block, cursor) ==
    [ kind |-> "ProcessBlock", ptr |-> block.number,
      triggers |-> TriggersInBlock(block), cursor |-> cursor, parent |-> None ]

\* A Revert that names the parent of the undone block.
RevertEventOfParent(block, cursor) ==
    [ kind |-> "Revert", ptr |-> block.number - 1, triggers |-> << >>,
      cursor |-> cursor, parent |-> None ]

\* BlockStreamEvent::Revert(block.ptr(), Some(cursor), None)
RevertEvent(block, cursor) ==
    [ kind |-> "Revert", ptr |-> block.number, triggers |-> << >>,
      cursor |-> cursor, parent |-> None ]

NoEvent ==
    [ kind |-> "none", ptr |-> 0, triggers |-> << >>, cursor |-> None,
      parent |-> None ]

\* A plausible slip: a step that is not handled is reported as an error.
OnUnhandledStepError == "Err"

\* `StepIrreversible => { panic!(..) }`, `StepUnknown => { panic!(..) }`
OnUnhandledStep == "panic"

\* FirehoseMapper::to_block_stream_event
ToBlockStreamEvent(response) ==
    IF ~Recognised(response.step)
    THEN [ outcome |-> "panic", event |-> NoEvent ]
    ELSE IF response.payload.kind = "absent"
    THEN [ outcome |-> "panic", event |-> NoEvent ]
    ELSE IF response.payload.kind = "garbage"
    THEN [ outcome |-> "Err", event |-> NoEvent ]
    ELSE CASE response.step = "New" ->
                [ outcome |-> "Ok",
                  event |-> ProcessBlockEvent(response.payload.block,
                                              response.cursor) ]
           [] response.step = "Undo" ->
                [ outcome |-> "Ok",
                  event |-> RevertEvent(response.payload.block,
                                        response.cursor) ]
           [] response.step = "Irreversible" ->
                [ outcome |-> OnUnhandledStep, event |-> NoEvent ]
           [] response.step = "Unknown" ->
                [ outcome |-> OnUnhandledStep, event |-> NoEvent ]

\* Nothing handed to the solana chain yet.
SolNewWith(block) ==
    /\ tblock = block
    /\ ttriggers = << >>
    /\ tsorted = << >>
    /\ tstage = "block"
    /\ mfeed = << >>
    /\ mevents = << >>
    /\ mresult = "none"

SolNew == SolNewWith(NoBlock)

\* ------------------------------------------- relational::index::CreateIndex

\* The characters of a column list: a lower-case and an upper-case letter,
\* "l" for the function name of a prefix expression (left, substring), the
\* comma, the parentheses, the double quote and the blank.
IndexChars == { "a", "A", "l", ",", "(", ")", "\"", " " }

\* The column lists of the definitions handed to CreateIndex::parse.
ColumnLists == UNION { [1..n -> IndexChars] : n \in 0..MaxDefnLen }

\* defn.make_ascii_lowercase()
MakeAsciiLowercase(s) == [ i \in 1..Len(s) |-> IF s[i] = "A" THEN "a" ELSE s[i] ]

\* str::trim
RECURSIVE Trim(_)
Trim(s) ==
    IF s = << >> THEN s
    ELSE IF s[1] = " " THEN Trim(SubSeq(s, 2, Len(s)))
    ELSE IF s[Len(s)] = " " THEN Trim(SubSeq(s, 1, Len(s) - 1))
    ELSE s

\* c.is_ascii_alphanumeric() || c == '$' || c == '_'
IsColumnChar(c) == c \in { "a", "A", "l" }

\* [a-z0-9$_]
IsNameChar(c) == c \in { "a", "l" }

\* The longest run of name characters of e from position i on.
RECURSIVE NameFrom(_, _)
NameFrom(e, i) ==
    IF i > Len(e) \/ ~IsNameChar(e[i]) THEN << >>
    ELSE << e[i] >> \o NameFrom(e, i + 1)

\* Expr::parse; the fixed expressions (vid, block_range, ..) are not words
\* over IndexChars.
ExprParse(expr) ==
    LET e == Trim(expr)
    IN  IF \A i \in 1..Len(e) : IsColumnChar(e[i])
        THEN [ kind |-> "Column", text |-> e ]
        ELSE IF Len(e) >= 3 /\ e[1] = "l" /\ e[2] = "(" /\ IsNameChar(e[3])
        THEN [ kind |-> "Prefix", text |-> NameFrom(e, 3) ]
        ELSE [ kind |-> "Unknown", text |-> e ]

\* A plausible slip: every comma starts a new column.
SplitsAtAnyComma(c, parens) == c = ","

\* split_columns, `',' if parens == 0`
SplitsAt(c, parens) == c = "," /\ parens = 0

\* split_columns: the loop from the i-th character on.
RECURSIVE SplitFrom(_, _, _, _, _)
SplitFrom(s, i, parens, column, columns) ==
    IF i > Len(s) THEN Append(columns, ExprParse(column))
    ELSE LET c == s[i]
         IN  CASE c = "\"" -> SplitFrom(s, i + 1, parens, column, columns)
               [] c = "(" ->
                    SplitFrom(s, i + 1, parens + 1, Append(column, c), columns)
               [] c = ")" ->
                    SplitFrom(s, i + 1, parens - 1, Append(column, c), columns)
               [] c \notin { "\"", "(", ")" } /\ SplitsAt(c, parens) ->
                    SplitFrom(s, i + 1, parens, << >>,
                              Append(columns, ExprParse(column)))
               [] OTHER ->
                    SplitFrom(s, i + 1, parens, Append(column, c), columns)

SplitColumns(s) == SplitFrom(s, 1, 0, << >>, << >>)

\* CreateIndex::parse of a definition: `matches` says whether the regex of
\* new_parsed matches it, `columns` is what its columns group captures.
CreateIndexParse(d) ==
    IF d.matches
    THEN [ kind |-> "Parsed",
           columns |-> SplitColumns(MakeAsciiLowercase(d.columns)) ]
    ELSE [ kind |-> "Unknown", columns |-> << >> ]

NotParsed == [ kind |-> "none", columns |-> << >> ]

\* A definition not yet handed to CreateIndex::parse.
IdxNewWith(d) ==
    /\ defn = d
    /\ index = NotParsed

IdxNew == IdxNewWith([ matches |-> FALSE, columns |-> << >> ])

\* A freshly constructed stream: no error yet.
Init ==
    /\ \E range \in InitRanges : InitWith(0, range)
    /\ BufNew
    /\ IngNew(<< >>)
    /\ BfNew
    /\ IdxNew
    /\ SolNew

\* Any BlockStream value in BeginReconciliation: poll_next is a method of the
\* struct and reads consecutive_err_count whatever set it.
InitAny ==
    /\ \E count \in 0..MaxInitErr, range \in InitRanges : InitWith(count, range)
    /\ BufNew
    /\ IngNew(<< >>)
    /\ BfNew
    /\ IdxNew
    /\ SolNew

Next == Poll \/ ChainHeadUpdate

Spec == Init /\ [][Next]_vars

SpecAny == InitAny /\ [][Next]_vars

\* The consumer keeps polling: a call of poll_next that can be made is made.
FairSpec == Init /\ [][Next]_vars /\ WF_vars(Poll)

BufNext == ConsumerPoll \/ TaskPoll \/ TaskSend \/ ConsumerDrop

\* A fresh BlockStream wrapped in a BufferedBlockStream.
BufInit ==
    /\ InitWith(0, RangeFloor) /\ BufNew /\ IngNew(<< >>) /\ BfNew /\ SolNew
    /\ IdxNew

BufSpec == BufInit /\ [][BufNext]_vars

\* The consumer keeps polling and the runtime keeps scheduling the task's send.
BufFairSpec ==
    BufInit /\ [][BufNext]_vars /\ WF_vars(ConsumerPoll) /\ WF_vars(TaskSend)

\* One step of run().
IngestStep ==
    /\ \/ FetchHeadCursor
       \/ FetchSleep
       \/ Connect
       \/ StreamNext
       \/ Write
       \/ Sleep
    /\ UNCHANGED << bsVars, bufVars, bfVars, solVars, idxVars >>

IngestNext ==
    IngestStep \/ (Crash /\ UNCHANGED << bsVars, bufVars, bfVars, solVars, idxVars >>)

\* The live-tail loop against an empty store and one of the feeds.
IngestInit ==
    /\ InitWith(0, RangeFloor)
    /\ BufNew
    /\ \E f \in Feeds : IngNew(f)
    /\ BfNew
    /\ IdxNew
    /\ SolNew

IngestSpec == IngestInit /\ [][IngestNext]_vars

\* The live-tail loop against a store that may already hold a backfill target.
IngestTargetInit ==
    /\ InitWith(0, RangeFloor)
    /\ BufNew
    /\ \E f \in Feeds, target \in {None, MaxTarget} : IngNewWith(f, target)
    /\ BfNew
    /\ IdxNew
    /\ SolNew

IngestTargetSpec == IngestTargetInit /\ [][IngestNext]_vars

\* The scheduler keeps running run(): a step that can be taken is taken.
IngestFairSpec == IngestInit /\ [][IngestNext]_vars /\ WF_vars(IngestStep)

\* One step of run_backfill().
BackfillStep ==
    /\ \/ BackfillFetchCursor
       \/ BackfillFetchTarget
       \/ BackfillFetchSleep
       \/ BackfillIdleSleep
       \/ BackfillConnect
       \/ BackfillStreamNext
       \/ BackfillWrite
       \/ BackfillSleep
    /\ UNCHANGED << bsVars, bufVars, liveVars, solVars, idxVars >>

\* The backfill loop against a store that holds no target, the target 0 or a
\* target; run() is not started.
BackfillInit ==
    /\ InitWith(0, RangeFloor)
    /\ BufNew
    /\ \E target \in {None, 0} \cup Targets : IngNewWith(<< >>, target)
    /\ BfNew
    /\ IdxNew
    /\ SolNew

BackfillSpec == BackfillInit /\ [][BackfillStep]_vars

\* The scheduler keeps running run_backfill().
BackfillFairSpec ==
    BackfillInit /\ [][BackfillStep]_vars /\ WF_vars(BackfillStep)

\* run() and run_backfill() side by side on one store.
BothInit ==
    /\ InitWith(0, RangeFloor)
    /\ BufNew
    /\ \E f \in Feeds, target \in {None, MaxTarget} : IngNewWith(f, target)
    /\ BfNew
    /\ IdxNew
    /\ SolNew

BothNext ==
    /\ IngestStep \/ BackfillStep
    /\ fails' + bfails' <= MaxBothFailures

BothSpec == BothInit /\ [][BothNext]_vars

\* A call of triggers_in_block on tblock: the trigger_data it builds, and the
\* triggers of the BlockWithTriggers it returns, ordered by a stable sort
\* under SolanaTrigger's Ord.
CallTriggersInBlock ==
    /\ tstage = "block"
    /\ ttriggers' = TriggersInBlock(tblock)
    /\ tsorted' = StableSort(TriggersInBlock(tblock))
    /\ tstage' = "returned"
    /\ UNCHANGED << tblock, mfeed, mevents, mresult >>
    /\ UNCHANGED << bsVars, bufVars, ingVars, bfVars, idxVars >>

TriggerNext == CallTriggersInBlock

\* triggers_in_block on any of the blocks.
TriggerInit ==
    /\ InitWith(0, RangeFloor)
    /\ BufNew
    /\ IngNew(<< >>)
    /\ BfNew
    /\ IdxNew
    /\ \E block \in SolBlocks : SolNewWith(block)

TriggerSpec == TriggerInit /\ [][TriggerNext]_vars

\* The firehose stream hands its next envelope to the mapper; an envelope the
\* mapper fails on ends the stream.
MapEnvelope ==
    /\ mresult \in { "none", "Ok" }
    /\ Len(mfeed) < MaxMapped
    /\ \E response \in Responses(Len(mfeed) + 1) :
         LET r == ToBlockStreamEvent(response)
         IN  /\ mfeed' = Append(mfeed, response)
             /\ mresult' = r.outcome
             /\ mevents' = IF r.outcome = "Ok" THEN Append(mevents, r.event)
                                               ELSE mevents
    /\ UNCHANGED << tblock, ttriggers, tsorted, tstage >>
    /\ UNCHANGED << bsVars, bufVars, ingVars, bfVars, idxVars >>

MapNext == MapEnvelope

MapInit ==
    /\ InitWith(0, RangeFloor)
    /\ BufNew
    /\ IngNew(<< >>)
    /\ BfNew
    /\ IdxNew
    /\ SolNew

MapSpec == MapInit /\ [][MapNext]_vars

\* A call of CreateIndex::parse on defn.
ParseIndex ==
    /\ index = NotParsed
    /\ index' = CreateIndexParse(defn)
    /\ UNCHANGED defn
    /\ UNCHANGED << bsVars, bufVars, ingVars, bfVars, solVars >>

IndexNext == ParseIndex

\* CreateIndex::parse on any definition.
IndexInit ==
    /\ InitWith(0, RangeFloor)
    /\ BufNew
    /\ IngNew(<< >>)
    /\ BfNew
    /\ SolNew
    /\ \E m \in BOOLEAN, c \in ColumnLists :
          IdxNewWith([ matches |-> m, columns |-> c ])

IndexSpec == IndexInit /\ [][IndexNext]_vars

TypeOK ==
    /\ state \in States
    /\ fut \in {"none", "pending", "completed"}
    /\ consecutive_err_count \in Nat
    /\ max_block_range_size \in Nat
    /\ chain_head_update_stream \in 0..MaxNotifications
    /\ Len(emitted) <= MaxEmitted
    /\ requests \in Nat

\* ------------------------------------------------------------------- claims

\* C1: when a reconciliation step completes with Blocks(batch), the poll that
\* received it hands the first block of the batch to the caller as a
\* ProcessBlock event and keeps the rest of the batch, in order, for the
\* following polls.
C1_BatchIsYielded ==
    poll.outcome = "Blocks" =>
        /\ poll.ret = "ProcessBlock"
        /\ emitted = Append(poll.emittedBefore,
                            [kind |-> "ProcessBlock", ptr |-> poll.blocks[1].number])
        /\ yielding = Tail(poll.blocks)

\* C3: once the source has failed exactly once since its last success, a next
\* request completes, and if it completes with Blocks then
\* max_block_range_size is max(floor(previous * 9 / 10), 10) after it, where
\* previous is its value before the failure.
C3_ShrinkAfterIsolatedError ==
    (poll.outcome = "Err" /\ errs = 1)
        ~> \/ errs >= 2
           \/ poll.outcome \in {"Done", "Revert"}
           \/ /\ poll.outcome = "Blocks"
              /\ max_block_range_size =
                     Max((lastErr.maxBefore * 9) \div 10, RangeFloor)

\* C4: a Blocks result received while consecutive_err_count is not exactly 1
\* (no error before it, or two or more) leaves max_block_range_size as it was.
C4_NoShrinkUnlessExactlyOneError ==
    (poll.outcome = "Blocks" /\ poll.errBefore # 1) =>
        max_block_range_size = poll.maxBefore

\* C4 witness: a Blocks result arrived with an error count of two or more.
C4_Witness ==
    /\ poll.outcome = "Blocks"
    /\ poll.errBefore >= 2
    /\ state = "YieldingBlocks"

\* C5: max_block_range_size is at least 10 in every state, no call of poll_next
\* increases it, and a call changes it only by the 10% shrink (floor 10) on a
\* Blocks result received with consecutive_err_count = 1.
C5_RangeFloorAndOnlyShrink ==
    /\ max_block_range_size >= RangeFloor
    /\ max_block_range_size <= poll.maxBefore
    /\ max_block_range_size # poll.maxBefore =>
          /\ poll.outcome = "Blocks"
          /\ poll.errBefore = 1
          /\ max_block_range_size = Max((poll.maxBefore * 9) \div 10, RangeFloor)

\* C5 witness: the shrink has acted and lowered the range.
C5_Witness ==
    /\ poll.outcome = "Blocks"
    /\ poll.errBefore = 1
    /\ max_block_range_size < poll.maxBefore

\* C6: when a reconciliation request completes with an error,
\* consecutive_err_count is one more than before and the state is
\* RetryAfterDelay.
C6_ErrorCountedAndRetryAfterDelay ==
    poll.outcome = "Err" =>
        /\ consecutive_err_count = poll.errBefore + 1
        /\ state = "RetryAfterDelay"

\* C7 as stated: the poll in which the reconciliation request fails yields no
\* item, and the caller only ever observes ProcessBlock and Revert events.
C7_ErrorEmitsNothing ==
    /\ poll.outcome = "Err" =>
          /\ poll.ret = "Pending"
          /\ emitted = poll.emittedBefore
    /\ \A i \in 1..Len(emitted) : emitted[i].kind \in {"ProcessBlock", "Revert"}

\* C7 as amended: the poll in which the reconciliation request fails yields
\* exactly one item, the error itself, and no event; every item the caller of
\* poll_next observes is a ProcessBlock event, a Revert event or such an error.
C7_ErrorIsYielded ==
    /\ poll.outcome = "Err" =>
          /\ poll.ret = "Err"
          /\ emitted = Append(poll.emittedBefore, [kind |-> "Err", ptr |-> 0])
    /\ \A i \in 1..Len(emitted) :
          emitted[i].kind \in {"ProcessBlock", "Revert", "Err"}

\* C7 witness: a reconciliation request has failed in the last poll.
C7_Witness ==
    /\ poll.outcome = "Err"
    /\ Len(emitted) >= 1
    /\ Last(emitted).kind = "Err"

\* C8: after a reconciliation error, if the caller keeps polling, the stream
\* eventually issues a new reconciliation request.
C8_ErrorIsRetried ==
    (poll.outcome = "Err") ~> (requests > lastErr.requests)

\* C9: a Done result puts the stream in Idle with consecutive_err_count = 0 and
\* emits nothing; while the stream is Idle and no chain head update has
\* arrived, no step emits an event or issues a reconciliation request.
C9_DoneEntersIdle ==
    /\ [](poll.outcome = "Done" =>
            /\ state = "Idle"
            /\ consecutive_err_count = 0
            /\ emitted = poll.emittedBefore)
    /\ [][(state = "Idle" /\ chain_head_update_stream = 0) =>
            /\ requests' = requests
            /\ emitted' = emitted]_vars

\* C9 witness: Done arrived at a stream whose error count was not 0, and the
\* stream is Idle with no notification.
C9_Witness ==
    /\ poll.outcome = "Done"
    /\ poll.errBefore > 0
    /\ state = "Idle"
    /\ chain_head_update_stream = 0

\* C10: if the stream is Idle and a chain head update has arrived, the stream
\* eventually leaves Idle.
C10_IdleWakesOnChainHeadUpdate ==
    (state = "Idle" /\ chain_head_update_stream > 0) ~> (state # "Idle")

\* C11: the poll in which the reconciliation step completes with
\* Revert(pointer) hands a Revert event with that pointer to the caller and
\* leaves the state BeginReconciliation; the next call of poll_next starts
\* from BeginReconciliation and issues a new reconciliation request.
C11_RevertRestartsReconciliation ==
    /\ [](poll.outcome = "Revert" =>
            /\ poll.ret = "Revert"
            /\ state = "BeginReconciliation"
            /\ emitted = Append(poll.emittedBefore,
                                [kind |-> "Revert", ptr |-> poll.ptr]))
    /\ [][poll.outcome = "Revert" =>
            \/ poll' = poll
            \/ /\ poll'.stateBefore = "BeginReconciliation"
               /\ requests' = requests + 1]_vars

\* C11 witness: a Revert was emitted and the following poll issued the next
\* request, which is still pending.
C11_Witness ==
    /\ Len(emitted) >= 1
    /\ Last(emitted).kind = "Revert"
    /\ poll.outcome = "Pending"
    /\ poll.stateBefore = "BeginReconciliation"
    /\ requests = 2

\* C12: the channel between the task and the consumer never holds more than
\* 4 messages, and the task is never more than 4 + 1 items ahead of the
\* consumer: 4 queued and one waiting in a blocked send.  A consumer that
\* stops polling therefore lets the task pull at most 5 further items.
C12_BoundedLookahead ==
    /\ Len(channel) <= ChannelCapacity
    /\ Len(inflight) <= 1
    /\ ~dropped => Len(emitted) - Len(received) <= ChannelCapacity + 1

\* The channel is full and the task waits in its send with a fifth item.
C12_Witness ==
    /\ ~dropped
    /\ Len(channel) = ChannelCapacity
    /\ task = "send"
    /\ Len(emitted) - Len(received) = ChannelCapacity + 1

C15_WritesInOrder ==
    /\ [](log \in { << >>, << "upsert" >>, << "upsert", "head" >>,
                    << "upsert", "head", "cursor" >> })
    /\ [][ /\ chain_blocks' # chain_blocks => log = << >> /\ log' = << "upsert" >>
           /\ log' # log /\ Len(log') = 2 => log' = << "upsert", "head" >>
           /\ head_cursor' # head_cursor =>
                 /\ log = << "upsert", "head" >>
                 /\ log' = << "upsert", "head", "cursor" >>
                 /\ head_cursor' = pos
           /\ (pc = "write" /\ fails' # fails) =>
                 /\ head_cursor' = head_cursor
                 /\ pc' = "sleep" ]_vars

\* The head update of the second envelope failed: its block is stored, the
\* cursor is still that of the first envelope.
C15_Witness ==
    /\ pc = "sleep"
    /\ lastEnd = "write"
    /\ log = << "upsert" >>
    /\ pos = 2
    /\ head_cursor = 1

\* C16 (as stated): the cursor and its block are persisted together: the
\* cursor never names a block that is not stored, and no block is stored
\* that the cursor has not advanced to.
C16_CursorAndBlockTogether ==
    /\ \A i \in 1..ReadCursor(head_cursor) : feed[i].number \in chain_blocks
    /\ \A b \in chain_blocks :
          \E i \in 1..ReadCursor(head_cursor) : feed[i].number = b

\* C16 (amended): the cursor never names a block that is not stored; the
\* store may be ahead of the cursor, by the block of the one envelope that
\* follows the cursor and by no more.
C16_CursorNeverAheadOfBlocks ==
    /\ \A i \in 1..ReadCursor(head_cursor) : feed[i].number \in chain_blocks
    /\ \A b \in chain_blocks :
          \E i \in 1..(ReadCursor(head_cursor) + 1) :
              i <= Len(feed) /\ feed[i].number = b

\* The second block is stored and the cursor is still that of the first.
C16_Witness ==
    /\ pc = "write"
    /\ log = << "upsert" >>
    /\ pos = 2
    /\ head_cursor = 1
    /\ feed[2].number \in chain_blocks
    /\ feed[2].number # feed[1].number

\* C17: a restart resumes from the persisted cursor: the feed is opened with
\* the cursor the store holds, the envelope delivered for processing is the
\* one that follows the persisted cursor (none is skipped, no older one comes
\* again), and it is delivered at most once more per crash or stream end
\* since the cursor last advanced.
C17_ResumeRedeliversOnce ==
    /\ pc \in {"connect", "stream"} => latest_cursor = ReadCursor(head_cursor)
    /\ pc = "stream" => pos = ReadCursor(head_cursor)
    /\ pc = "write" => pos = ReadCursor(head_cursor) + 1
    /\ attempts <= restarts + 1

\* The ingestor crashed after the upsert of the second block and before its
\* cursor write; restarted, it is processing that block a second time.
C17_Witness ==
    /\ crashes = 1
    /\ fails = 0
    /\ pc = "write"
    /\ pos = 2
    /\ log = << >>
    /\ feed[2].number \in chain_blocks
    /\ feed[2].number # feed[1].number
    /\ head_cursor = 1
    /\ attempts = 2
    /\ restarts = 1

\* C18: a decode failure makes no write to the store and leaves the cursor at
\* the last envelope fully processed; the stream is abandoned (run() goes to
\* its sleep, no further envelope of that stream is read), and after the
\* sleep the feed is opened again from that cursor.
C18_DecodeFailureReconnects ==
    /\ [][ (pc = "stream" /\ pos' # pos /\ fails' # fails) =>
             /\ storeVars' = storeVars
             /\ log' = << >>
             /\ ReadCursor(head_cursor') = pos
             /\ latest_cursor' = pos
             /\ pc' = "sleep"
             /\ lastEnd' = "decode" ]_vars
    /\ [][ (pc = "sleep" /\ crashes' = crashes) =>
             /\ storeVars' = storeVars
             /\ latest_cursor' = latest_cursor
             /\ pc' = "connect"
             /\ slept' ]_vars
    /\ [][ (pc = "connect" /\ pc' = "stream") =>
             /\ slept \/ ~opened
             /\ pos' = latest_cursor
             /\ latest_cursor = ReadCursor(head_cursor) ]_vars

\* The second envelope failed to decode; after the sleep the feed was opened
\* again and delivered it a second time, and nothing of it had been written.
C18_Witness ==
    /\ lastEnd = "decode"
    /\ fails = 1
    /\ crashes = 0
    /\ opens = 2
    /\ pc = "write"
    /\ pos = 2
    /\ attempts = 2
    /\ log = << >>
    /\ head_cursor = 1
    /\ chain_blocks = {feed[1].number}

\* C19: run() is always at one of the steps of its loop, never past it, and
\* whenever a stream has ended (run() is about to sleep) a feed is open again
\* later.
C19_LoopNeverEnds ==
    /\ [](pc \in {"fetch_cursor", "fetch_sleep", "connect", "stream", "write",
                   "sleep"})
    /\ (pc = "sleep") ~> (pc = "stream")

\* A connection failed after a stream had ended, and a third call of
\* stream_blocks opened a feed.
C19_Witness ==
    /\ pc = "stream"
    /\ opens = 3
    /\ lastEnd = "connect"
    /\ fails = 2
    /\ crashes = 0

\* C20: run() calls stream_blocks a second or later time only after the
\* backoff sleep that follows the end of the previous stream: between two
\* calls there is always a sleep.
C20_SleepBetweenFeeds ==
    /\ []((pc = "connect" /\ opened) => slept)
    /\ [][opens' # opens => (slept \/ ~opened) /\ ~slept']_vars
    /\ [][ (pc \in {"stream", "write"} /\ pc' \notin {"stream", "write"}
               /\ crashes' = crashes) => pc' = "sleep" ]_vars

\* A second feed is open; the first ended in a stream error.
C20_Witness ==
    /\ opens = 2
    /\ pc = "stream"
    /\ lastEnd = "stream"
    /\ crashes = 0
    /\ fails = 1

\* C21: when a live-tail stream started with no backfill target in the store
\* (process_blocks raised its flag), the step that completes the first block
\* of that stream leaves the number of that block as the store's backfill
\* target.
C21_FirstBlockSeedsTarget ==
    [][ (pc = "write" /\ pc' = "stream" /\ update_backfill_target_block) =>
            backfill_target' = feed[pos].number ]_vars

\* C22: the live-tail loop never overwrites a backfill target the store
\* holds, whatever blocks, reconnects and restarts follow; its flag is raised
\* only when a stream starts and the store holds no target, and it is down
\* once a block of that stream has been ingested, so only the first block of
\* a stream can be the seed.
C22_TargetWrittenAtMostOnce ==
    /\ [][backfill_target # None => backfill_target' = backfill_target]_vars
    /\ [][ (update_backfill_target_block' /\ ~update_backfill_target_block) =>
             /\ opens' # opens
             /\ backfill_target = None ]_vars
    /\ [][ (pc = "write" /\ pc' = "stream") =>
             ~update_backfill_target_block' ]_vars

\* The store held a target from the start; two blocks were ingested, across
\* a crash and a reconnect, and the target is what it was.
C22_Witness ==
    /\ backfill_target = MaxTarget
    /\ ReadCursor(head_cursor) >= 2
    /\ crashes = 1
    /\ opens >= 3

\* C23: while the target the backfill loop reads is unset or 0 it sends no
\* request and has no feed open; a read that finds no target is followed by
\* the backoff sleep, and the sleep by a new read of cursor and target.
C23_NoFeedWithoutTarget ==
    /\ [](ReadTarget(backfill_target) = 0 =>
            /\ breq = NoRequest
            /\ bpc \in {"fetch_cursor", "cursor_sleep", "fetch_target",
                         "target_sleep", "idle_sleep"})
    /\ [][ (bpc = "fetch_target" /\ bpc' # "fetch_target"
               /\ ReadTarget(backfill_target) = 0) =>
             bpc' \in {"idle_sleep", "target_sleep"} ]_vars
    /\ [][bpc = "idle_sleep" => bpc' = "fetch_cursor"]_vars

\* The store holds the target 0; the loop has slept and is reading the
\* target again.
C23_Witness ==
    /\ backfill_target = 0
    /\ bidled
    /\ bpc = "fetch_target"
    /\ breq = NoRequest

\* C24: when the store holds a target other than 0 the backfill loop gets a
\* feed open; every request it sends starts at block 0, stops at the stored
\* target and asks for the Irreversible step only, and its start cursor is
\* the backfill cursor the store holds when the request is sent.
C24_BackfillFeed ==
    /\ (ReadTarget(backfill_target) # 0) ~> (bpc = "stream")
    /\ [](breq # NoRequest =>
            /\ breq.start_block_num = 0
            /\ breq.stop_block_num = backfill_target
            /\ breq.fork_steps = {"Irreversible"})
    /\ [][ (bpc = "connect" /\ bpc' # "connect") =>
             breq'.start_cursor = ReadCursor(chain_backfill_cursor) ]_vars

\* After a failure the loop has a second feed open, from the cursor of the
\* first block backfilled.
C24_Witness ==
    /\ bpc = "stream"
    /\ bfails = 1
    /\ backfill_target = MaxTarget
    /\ breq.start_cursor = 1
    /\ chain_backfill_cursor = 1

\* C25: a step of the backfill loop leaves the chain head and the resume
\* cursor as they are and writes the backfill cursor only with the cursor of
\* its own envelope; a step of the live-tail loop leaves the backfill cursor
\* as it is and writes the resume cursor only with the cursor of its own
\* envelope.  So each loop finds in its key what it wrote there itself.
C25_DisjointCursorKeys ==
    /\ [][ bfVars' # bfVars =>
             /\ chain_head' = chain_head
             /\ head_cursor' = head_cursor
             /\ chain_backfill_cursor' # chain_backfill_cursor =>
                   chain_backfill_cursor' = bpos ]_vars
    /\ [][ liveVars' # liveVars =>
             /\ chain_backfill_cursor' = chain_backfill_cursor
             /\ head_cursor' # head_cursor => head_cursor' = pos ]_vars
    /\ [](pc = "stream" => ReadCursor(head_cursor) = latest_cursor)
    /\ [](bpc = "stream" => ReadCursor(chain_backfill_cursor) = bf_cursor)

\* Both loops have a feed open and have each advanced their own cursor, to
\* different values.
C25_Witness ==
    /\ pc = "stream"
    /\ bpc = "stream"
    /\ head_cursor = 1
    /\ chain_backfill_cursor = 2
    /\ chain_head = 1

C27_RevertCarriesParent ==
    \A i \in 1..Len(mevents) :
        mevents[i].kind = "Revert" => mevents[i].parent # None

\* C28: the mapper returns one event per New or Undo envelope, in feed order:
\* the i-th event is made from the i-th envelope; a New envelope gives
\* ProcessBlock with the block's triggers (one per instruction, then the Block
\* trigger) and the envelope's cursor, an Undo envelope gives Revert with the
\* undone block's pointer and the envelope's cursor.
C28_OneEventPerEnvelopeInOrder ==
    /\ Len(mevents) = IF mresult \in { "none", "Ok" } THEN Len(mfeed)
                                                      ELSE Len(mfeed) - 1
    /\ \A i \in 1..Len(mevents) :
         LET r == mfeed[i]
             e == mevents[i]
             b == r.payload.block
         IN  /\ r.step \in { "New", "Undo" }
             /\ e.cursor = r.cursor
             /\ e.cursor # None
             /\ e.ptr = b.number
             /\ r.step = "New" =>
                    /\ e.kind = "ProcessBlock"
                    /\ e.triggers = TriggersInBlock(b)
                    /\ e.triggers[Len(e.triggers)] = BlockTrigger(b)
             /\ r.step = "Undo" => e.kind = "Revert"

\* New blocks 1 and 2 followed by the Undo of block 2 gave two ProcessBlock
\* events and then one Revert.
C28_Witness ==
    /\ Len(mevents) = MaxMapped
    /\ \A i \in 1..(MaxMapped - 1) :
         mevents[i].kind = "ProcessBlock" /\ mevents[i].ptr = IF i = 1 THEN 1 ELSE MaxBlock
    /\ mevents[MaxMapped].kind = "Revert"
    /\ mevents[MaxMapped].ptr = MaxBlock
    /\ mevents[MaxMapped].cursor = MaxMapped

\* C29: triggers_in_block returns one Instruction trigger per instruction of
\* the block, ordered by transaction position and then instruction position,
\* followed by exactly one Block trigger as the last element; a stable sort
\* under SolanaTrigger's Ord leaves the sequence unchanged.
C29_InstructionsThenBlock ==
    tstage = "returned" =>
        LET n == Len(ttriggers)
            txs == tblock.transactions
            pairs == { << i, j >> \in (1..Len(txs)) \X (1..MaxInstr + 1) :
                           j <= Len(txs[i].instructions) }
        IN  /\ n = Cardinality(pairs) + 1
            /\ ttriggers[n].kind = "Block"
            /\ ttriggers[n].block_num = tblock.number
            /\ \A k \in 1..(n - 1) :
                   /\ ttriggers[k].kind = "Instruction"
                   /\ << ttriggers[k].transaction_id,
                         ttriggers[k].instruction >> \in pairs
            /\ \A p \in pairs :
                   Cardinality({ k \in 1..(n - 1) :
                       /\ ttriggers[k].transaction_id = p[1]
                       /\ ttriggers[k].instruction = p[2] }) = 1
            /\ \A k \in 1..(n - 1), l \in 1..(n - 1) :
                   k < l =>
                     \/ ttriggers[k].transaction_id < ttriggers[l].transaction_id
                     \/ /\ ttriggers[k].transaction_id = ttriggers[l].transaction_id
                        /\ ttriggers[k].instruction < ttriggers[l].instruction
            /\ tsorted = ttriggers

\* A block of several transactions, one of them without instructions, went
\* through triggers_in_block.
C29_Witness ==
    /\ tstage = "returned"
    /\ Len(tblock.transactions) = MaxTx
    /\ Len(tblock.transactions[1].instructions) = 2
    /\ Len(tblock.transactions[2].instructions) = 0
    /\ Len(tblock.transactions[MaxTx].instructions) = MaxInstr
    /\ Len(tsorted) = MaxInstr + 3

\* C30: a read of the head cursor that succeeds ends fetch_head_cursor at once
\* with the cursor persisted in the store, or with the empty string when the
\* store holds none; a read that fails changes nothing, is followed by the
\* backoff sleep, and the sleep by another read.
C30_FetchHeadCursor ==
    /\ [][ (pc = "fetch_cursor" /\ crashes' = crashes) =>
              \/ /\ fails' = fails
                 /\ pc' = "connect"
                 /\ latest_cursor' = IF head_cursor = None THEN 0 ELSE head_cursor
              \/ /\ fails' = fails + 1
                 /\ pc' = "fetch_sleep"
                 /\ latest_cursor' = latest_cursor ]_vars
    /\ [][ pc = "fetch_cursor" => head_cursor' = head_cursor ]_vars
    /\ [][ pc = "fetch_sleep" => pc' = "fetch_cursor" ]_vars
    /\ (pc = "fetch_sleep") ~> (pc = "fetch_cursor")

\* Before any stream was opened every read of the cursor failed until the
\* store stopped failing; then the call returned the empty string.
C30_Witness ==
    /\ pc = "connect"
    /\ opens = 0
    /\ crashes = 0
    /\ fails = MaxFailures
    /\ head_cursor = None
    /\ latest_cursor = 0

\* C31: CreateIndex::parse starts a new column exactly at the commas of the
\* column list that have as many "(" as ")" in front of them, and drops the
\* double quotes: N top-level expressions give N columns, the i-th column
\* made from the i-th expression, and no column holds a double quote.
C31_SplitAtTopLevelCommas ==
    index.kind = "Parsed" =>
        LET s == MakeAsciiLowercase(defn.columns)
            Depth(k) == Cardinality({ i \in 1..(k - 1) : s[i] = "(" })
                            - Cardinality({ i \in 1..(k - 1) : s[i] = ")" })
            cuts == { k \in 1..Len(s) : s[k] = "," /\ Depth(k) = 0 }
            n == Cardinality(cuts) + 1
            CutAt(i) == CHOOSE k \in cuts :
                            Cardinality({ j \in cuts : j < k }) = i - 1
            From(i) == IF i = 1 THEN 1 ELSE CutAt(i - 1) + 1
            To(i) == IF i = n THEN Len(s) ELSE CutAt(i) - 1
            NotQuote(c) == c # "\""
            Expression(i) == SelectSeq(SubSeq(s, From(i), To(i)), NotQuote)
        IN  /\ Len(index.columns) = n
            /\ \A i \in 1..n :
                 /\ index.columns[i] = ExprParse(Expression(i))
                 /\ index.columns[i].kind \in { "Column", "Unknown" } =>
                        index.columns[i].text = Trim(Expression(i))
                 /\ \A j \in 1..Len(index.columns[i].text) :
                        index.columns[i].text[j] # "\""

\* The column list `(,),A` was parsed into the two columns `(,)` and `a`.
C31_Witness ==
    /\ defn.columns = << "(", ",", ")", ",", "A" >>
    /\ index.kind = "Parsed"
    /\ Len(index.columns) = 2
    /\ index.columns[1].text = << "(", ",", ")" >>
    /\ index.columns[2] = [ kind |-> "Column", text |-> << "a" >> ]

\* C32: every call of BlockStream::poll_next returns, Pending or Ready, after
\* finitely many iterations of its loop: no call is left iterating without
\* returning, whatever the state.
C32_PollReturns == poll.ret # "Spin"

\* C33: a BlockStream has at most one reconciliation request outstanding: a
\* request is issued only from BeginReconciliation, where none is held; a
\* future is held only in Reconciliation; and a poll that finds the request
\* still pending returns Pending, keeps that request, issues no other and
\* leaves consecutive_err_count and max_block_range_size as they were.
C33_OneRequestOutstanding ==
    /\ [](fut # "none" => state = "Reconciliation")
    /\ [](poll.outcome = "Pending" =>
            /\ poll.ret = "Pending"
            /\ state = "Reconciliation"
            /\ fut = "pending"
            /\ consecutive_err_count = poll.errBefore
            /\ max_block_range_size = poll.maxBefore)
    /\ [][ requests' # requests =>
             /\ state = "BeginReconciliation"
             /\ fut = "none"
             /\ requests' = requests + 1 ]_vars
    /\ [][ (state = "Reconciliation" /\ fut = "pending" /\ poll' # poll
              /\ poll'.outcome = "Pending") =>
             /\ requests' = requests
             /\ consecutive_err_count' = consecutive_err_count
             /\ max_block_range_size' = max_block_range_size ]_vars

\* C33 witness: a stream with a non-zero error count was polled twice while
\* its first request was pending; there is still one request.
C33_Witness ==
    /\ poll.outcome = "Pending"
    /\ poll.stateBefore = "Reconciliation"
    /\ requests = 1
    /\ consecutive_err_count >= 1
    /\ fut = "pending"

\* C34: the state only moves along the documented edges, one iteration of the
\* loop of poll_next at a time: BeginReconciliation to Reconciliation;
\* Reconciliation to YieldingBlocks, Idle, RetryAfterDelay or
\* BeginReconciliation; YieldingBlocks, RetryAfterDelay and Idle to
\* BeginReconciliation; and the state is never Transition when poll_next is
\* entered or left.
C34_DocumentedEdgesOnly ==
    /\ state # "Transition"
    /\ \A o \in NextBlocksResults(max_block_range_size) :
         LET to == MatchState(Self, o).state
         IN  \/ to = state
             \/ << state, to >> \in
                  { << "BeginReconciliation", "Reconciliation" >>,
                    << "Reconciliation", "YieldingBlocks" >>,
                    << "Reconciliation", "Idle" >>,
                    << "Reconciliation", "RetryAfterDelay" >>,
                    << "Reconciliation", "BeginReconciliation" >>,
                    << "YieldingBlocks", "BeginReconciliation" >>,
                    << "RetryAfterDelay", "BeginReconciliation" >>,
                    << "Idle", "BeginReconciliation" >> }

\* C34 witness: the stream went from BeginReconciliation to Reconciliation,
\* back to BeginReconciliation by a revert, to Reconciliation again and from
\* there to Idle.
C34_Witness ==
    /\ state = "Idle"
    /\ requests = 2
    /\ Len(emitted) = 1
    /\ emitted[1].kind = "Revert"
    /\ poll.outcome = "Done"

C39_NeverEndOfStream ==
    /\ requests > 0 =>
          poll.ret \in { "Pending", "Revert", "Err", "ProcessBlock", "Spin", "Panic" }
    /\ \A i \in 1..Len(emitted) :
          emitted[i].kind \in { "ProcessBlock", "Revert", "Err" }
    /\ \A i \in 1..Len(received) : received[i] # EndOfStream
    /\ ~dropped => PollRecv(channel, SendersAlive(task)) # "None"

\* C39 witness: the source gave a revert and then an error, the consumer
\* received both, the task has stopped and the channel is empty.
C39_Witness ==
    /\ started
    /\ ~dropped
    /\ task = "dead"
    /\ channel = << >>
    /\ Len(received) = 2
    /\ received[1].kind = "Revert"
    /\ received[2].kind = "Err"

\* C35: every feed the live-tail loop opens is requested with start_block_num
\* -1, fork steps exactly {New, Undo} and, as start cursor, the resume cursor
\* the store holds at that moment ("" when it holds none); once
\* fetch_head_cursor has returned, the cursor run() keeps in memory is the
\* persisted one.
C35_FeedOpensAtPersistedCursor ==
    /\ [](opens > 0 =>
            /\ req.start_block_num = -1
            /\ req.fork_steps = {"New", "Undo"})
    /\ [][ opens' # opens =>
             req'.start_cursor = IF head_cursor = None THEN 0 ELSE head_cursor ]_vars
    /\ [](pc \notin { "fetch_cursor", "fetch_sleep" } =>
            latest_cursor = IF head_cursor = None THEN 0 ELSE head_cursor)

\* C35 witness: after the first envelope was written and a write for the
\* second one failed, run() slept and opened its second feed at the persisted
\* cursor of the first envelope.
C35_Witness ==
    /\ opens = 2
    /\ crashes = 0
    /\ lastEnd = "write"
    /\ pc = "stream"
    /\ head_cursor = 1
    /\ req.start_cursor = 1
    /\ Cardinality(chain_blocks) = 2

\* C38: the live-tail loop treats every envelope alike whatever its step: for
\* an Undo envelope as for a New one its writes upsert the envelope's block,
\* recompute the chain head over the stored blocks and set the resume cursor
\* to the envelope's cursor; no step removes a block from the store.
C38_UndoHandledLikeNew ==
    /\ [][ chain_blocks \subseteq chain_blocks' ]_vars
    /\ [][ (pc = "write" /\ fails' = fails /\ crashes' = crashes) =>
             /\ w = 1 => chain_blocks' = chain_blocks \cup { feed[pos].number }
             /\ w = 2 => /\ chain_head' \in chain_blocks
                         /\ \A b \in chain_blocks : b <= chain_head'
             /\ w = 3 => head_cursor' = pos ]_vars
    /\ [](\A i \in 1..Len(feed) :
            (head_cursor # None /\ head_cursor >= i) =>
                feed[i].number \in chain_blocks)

\* C38 witness: a New envelope and then the Undo of its block were both
\* written in full: the block is still stored, the head still points at it
\* and the cursor is the one of the Undo envelope.
C38_Witness ==
    /\ feed[1].step = "New"
    /\ feed[2].step = "Undo"
    /\ head_cursor = 2
    /\ latest_cursor = 2
    /\ chain_blocks = { feed[2].number }
    /\ chain_head = feed[2].number

\* C37 as stated: an envelope whose step is Irreversible, Unknown or an
\* unrecognised integer yields no event, and the mapper aborts with a panic
\* instead of returning an error value.
C37_OtherStepsAlwaysPanic ==
    /\ \A i \in 1..Len(mevents) : mfeed[i].step \in { "New", "Undo" }
    /\ (mfeed # << >> /\ mfeed[Len(mfeed)].step \notin { "New", "Undo" }) =>
          /\ mresult = "panic"
          /\ Len(mevents) = Len(mfeed) - 1

\* C37 as amended: an envelope whose step is Irreversible, Unknown or an
\* unrecognised integer yields no event, so it is never delivered as
\* ProcessBlock or Revert.  The mapper aborts with a panic, except that for an
\* Irreversible or Unknown envelope whose payload is present and does not
\* decode it returns the decode error: the payload is decoded before the step
\* is matched.
C37_OtherStepsYieldNoEvent ==
    /\ \A i \in 1..Len(mevents) : mfeed[i].step \in { "New", "Undo" }
    /\ (mfeed # << >> /\ mfeed[Len(mfeed)].step \notin { "New", "Undo" }) =>
          LET r == mfeed[Len(mfeed)]
          IN  /\ Len(mevents) = Len(mfeed) - 1
              /\ mresult = IF /\ r.step \in { "Irreversible", "Unknown" }
                              /\ r.payload.kind = "garbage"
                           THEN "Err" ELSE "panic"

\* C37 witness: after a New envelope gave its event, an Irreversible envelope
\* with a decodable block made the mapper panic; no second event exists.
C37_Witness ==
    /\ Len(mfeed) = 2
    /\ mfeed[1].step = "New"
    /\ mfeed[2].step = "Irreversible"
    /\ mfeed[2].payload.kind = "block"
    /\ mresult = "panic"
    /\ Len(mevents) = 1

============================================================================
